---- MODULE Spec2Model ----
(***************************************************************************)
(* lambdarouter: a router that maps an API Gateway request (method, path,  *)
(* pathParameters) to a registered handler chain.                          *)
(*                                                                         *)
(* The repository holds four generations of the router:                    *)
(*   api = "single"     src/unnamed/part_000   a route is one handler,     *)
(*                      parameters are reconciled on the path string       *)
(*   api = "handlers"   src/router.go:1-187    a route is a list of        *)
(*                      handlers, each run on its own context              *)
(*   api = "middleware" src/router.go:189-407  a route is one handler plus *)
(*                      route-level middleware, wrapped by router-level    *)
(*                      middleware                                         *)
(*   api = "group"      New / Group / Invoke: only its tests and example   *)
(*                      are in the repository snapshot                     *)
(*                                                                         *)
(* A string is a sequence of characters.  The characters "/", "{" and "}"  *)
(* are the ones the code inspects; every other character of the alphabet   *)
(* is written as one atom ("a", "pre", "x", ...).                          *)
(***************************************************************************)
EXTENDS Integers, Sequences, FiniteSets, TLC

VARIABLES
    api,         \* which generation of the router this instance is
    routes,      \* r.routes / r.endpoints: method -> (key -> chain)
    params,      \* r.params: the known-parameter set (keys of the map)
    prefix,      \* r.prefix / r.svcprefix / the active prefix of a group router
    headers,     \* r.headers: default response headers (set of <<name, value>>)
    middleware,  \* r.middleware: router-level middleware
    saved,       \* prefixes saved by the Group calls whose callback is running
    registered,  \* history: <<method, path, group depth>> of the registrations
                 \* that raised no fault
    pc,          \* "ready": between calls; "done": a call has just ended
    call,        \* the call that has just ended, with its inputs
    fault,       \* the panic the call raised ("" when it returned normally)
    response,    \* the response the call returned
    lastCtx,     \* the context the last stage of the call ran on
    trace,       \* the stages entered by the call, in order
    contexts     \* per stage entered: the context it received (in) and the
                 \* context as the stage's own writes left it (out)

vars == <<api, routes, params, prefix, headers, middleware, saved, registered,
          pc, call, fault, response, lastCtx, trace, contexts>>

----------------------------------------------------------------------------
(* Bounds of the model *)

MaxRoutes == 2
MaxDepth == 2

----------------------------------------------------------------------------
(* Program constants *)

StatusNotFound == 404
StatusNoContent == 204
StatusBadRequest == 400

post == "POST"
get == "GET"
put == "PUT"
patch == "PATCH"
delete == "DELETE"

Methods == {post, get, put, patch, delete}

DuplicateFault == "endpoint already existent"
NoRouteMessage == <<"no route matching path found">>
RecordNotFound == <<"record not found">>

----------------------------------------------------------------------------
(* package strings *)

HasPrefix(s, p) == Len(p) <= Len(s) /\ SubSeq(s, 1, Len(p)) = p

HasSuffix(s, p) == Len(p) <= Len(s) /\ SubSeq(s, Len(s) - Len(p) + 1, Len(s)) = p

TrimPrefix(s, p) == IF HasPrefix(s, p) THEN SubSeq(s, Len(p) + 1, Len(s)) ELSE s

TrimSuffix(s, p) == IF HasSuffix(s, p) THEN SubSeq(s, 1, Len(s) - Len(p)) ELSE s

\* strings.Contains(s, sub)
Contains(s, sub) ==
    \E i \in 1..(Len(s) - Len(sub) + 1) : SubSeq(s, i, i + Len(sub) - 1) = sub

\* strings.Split(s, "/"): never empty, Split("") = [""]
RECURSIVE Split(_)
Split(s) ==
    IF \A i \in 1..Len(s) : s[i] # "/"
    THEN <<s>>
    ELSE LET i == CHOOSE j \in 1..Len(s) :
                      s[j] = "/" /\ \A k \in 1..(j - 1) : s[k] # "/"
         IN  <<SubSeq(s, 1, i - 1)>> \o Split(SubSeq(s, i + 1, Len(s)))

\* strings.Join(segs, "/")
RECURSIVE Join(_)
Join(segs) ==
    IF Len(segs) = 0 THEN <<>>
    ELSE IF Len(segs) = 1 THEN segs[1]
    ELSE segs[1] \o <<"/">> \o Join(Tail(segs))

\* json.Marshal(map[string]string{"error": msg})
JsonError(msg) == <<"{\"error\":\"">> \o msg \o <<"\"}">>

\* m[k] of a Go map[string]string: the zero value "" when k is absent
Lookup(m, k) == IF k \in DOMAIN m THEN m[k] ELSE <<>>

----------------------------------------------------------------------------
(* armon/go-radix: a tree is an exact-match map from key to value *)

NewTree == <<>>

\* Tree.Get(k)
TreeHas(tree, k) == k \in DOMAIN tree

\* Tree.Insert(k, v): stores v, overwriting the value of an existing key
TreeInsert(tree, k, v) == [x \in DOMAIN tree \cup {k} |-> IF x = k THEN v ELSE tree[x]]

----------------------------------------------------------------------------
(* Helper functions shared by the generations in src/ *)

stripSlashesAndSplit(s) == Split(TrimSuffix(TrimPrefix(s, <<"/">>), <<"/">>))

\* the orders in which `for k := range m` may visit the keys of a Go map
Orders(keys) ==
    {o \in [1..Cardinality(keys) -> keys] :
        \A i, j \in 1..Cardinality(keys) : o[i] = o[j] => i = j}

\* x.(map[string]interface{}) on Authorizer["claims"]: the single-value type
\* assertion panics when the dynamic type is another one
ClaimsPanic(claims) == claims # "nil" /\ claims # "map"

ConversionFault == "interface conversion"

NoResponse == [StatusCode |-> 0, Body |-> <<>>, Headers |-> {}]

\* &APIGContext{Body: []byte(r.request.Body)}: Status 0, Err nil
NewContext(req) == [Status |-> 0, Body |-> req.body, Err |-> <<>>]

\* what a handler, an opaque callback, writes into its context: "hOk" is the
\* tests' hdlrfunc, every other handler writes what this dispatch's `out` says
HandlerWrites(h, out) ==
    IF h = "hOk" THEN [Status |-> 200, Body |-> <<"hello">>, Err |-> <<>>]
    ELSE out

----------------------------------------------------------------------------
(* api = "middleware": src/router.go:189-407 *)

\* NewAPIGRouter(cfg)
NewAPIGRouter(cfg) ==
    [routes     |-> [m \in Methods |-> NewTree],
     params     |-> {},
     prefix     |-> cfg.Prefix,
     headers    |-> cfg.Headers,
     middleware |-> cfg.Middleware]

\* the parameter names addRoute records for a path
RouteParams(path) ==
    LET rtearr == stripSlashesAndSplit(path)
    IN  {TrimSuffix(TrimPrefix(rtearr[i], <<"{">>), <<"}">>) :
            i \in {j \in 1..Len(rtearr) : HasPrefix(rtearr[j], <<"{">>)}}

\* mutant: the result of Insert is ignored
addRoute_silent(tree, known, path, functions) ==
    [tree   |-> TreeInsert(tree, path, functions),
     params |-> known \cup RouteParams(path),
     fault  |-> ""]

\* addRoute: Insert stores the functions before the overwrite is noticed; the
\* panic leaves before the parameters are recorded
addRoute(tree, known, path, functions) ==
    LET overwrite == TreeHas(tree, path)
    IN  [tree   |-> TreeInsert(tree, path, functions),
         params |-> IF overwrite THEN known ELSE known \cup RouteParams(path),
         fault  |-> IF overwrite THEN DuplicateFault ELSE ""]

\* the inner loop of Respond: the first segment equal to pval becomes repl
RECURSIVE ReplaceFirst(_, _, _)
ReplaceFirst(splitPath, pval, repl) ==
    IF splitPath = <<>> THEN <<>>
    ELSE IF Head(splitPath) = pval THEN <<repl>> \o Tail(splitPath)
    ELSE <<Head(splitPath)>> \o ReplaceFirst(Tail(splitPath), pval, repl)

\* the outer loop of Respond, visiting r.params in the given order
RECURSIVE Reconcile(_, _, _)
Reconcile(splitPath, order, pathParameters) ==
    IF order = <<>> THEN splitPath
    ELSE LET p == Head(order)
             pval == Lookup(pathParameters, p)
         IN  Reconcile(IF pval # <<>>
                       THEN ReplaceFirst(splitPath, pval, <<"{">> \o p \o <<"}">>)
                       ELSE splitPath,
                       Tail(order), pathParameters)

\* mutant: the prefix is left on the path
LookupKey_keepPrefix(pfx, req, order) ==
    <<"/">> \o Join(Reconcile(stripSlashesAndSplit(req.path), order, req.pathParameters))

\* the key Respond looks up
LookupKey(pfx, req, order) ==
    <<"/">> \o Join(Reconcile(stripSlashesAndSplit(TrimPrefix(req.path, pfx)),
                              order, req.pathParameters))

\* an APIGHandler is the sequence of the stages it enters, outermost first: a
\* handler passed to Get..Delete is one stage, m(next) enters m and then next
Wrap(m, next) == <<m>> \o next

\* mutant: the first middleware of the list becomes the outermost
WrapAll_listedFirst(ms, handler) == ms \o handler

\* the two wrapping loops of Respond: route-level middleware, then router-level
RECURSIVE WrapAll(_, _)
WrapAll(ms, handler) ==
    IF ms = <<>> THEN handler ELSE WrapAll(Tail(ms), Wrap(Head(ms), handler))

\* mutant: the router-level middleware is wrapped first, the route-level last
ComposedHandler_routerInside(functions, routerMiddleware) ==
    WrapAll(functions.middleware, WrapAll(routerMiddleware, functions.handler))

ComposedHandler(functions, routerMiddleware) ==
    WrapAll(routerMiddleware, WrapAll(functions.middleware, functions.handler))

\* middleware are callbacks of the caller: a guard sets an error and returns
\* without calling the handler it wraps, a marker sets an error and calls it,
\* every other middleware calls it and writes nothing
\* mutant: the table holds a reference to the route, so the wrapped handler
\* is stored back
StoredRoute_shared(stored, wrapped) == [stored EXCEPT !.handler = wrapped]

\* functions := routeInterface.(routeFunctions) copies the stored value: the
\* assignments to functions.handler leave the stored route as it was
StoredRoute(stored, wrapped) == stored

\* the method's table after a dispatch that looked up key
TreeAfterRespond(tree, key, routerMiddleware) ==
    IF ~TreeHas(tree, key) THEN tree
    ELSE [tree EXCEPT ![key] =
              StoredRoute(tree[key], ComposedHandler(tree[key], routerMiddleware))]

Guards == {"mwGuard"}
Markers == {"mwMark"}
Unauthorized == <<"unauthorized">>
Marked == <<"marked">>

MiddlewareWrites(m, ctx) ==
    IF m \in Guards THEN [ctx EXCEPT !.Status = 401, !.Err = <<Unauthorized>>]
    ELSE IF m \in Markers THEN [ctx EXCEPT !.Err = <<Marked>>]
    ELSE ctx

\* functions.handler(ctx): every stage of the composed handler runs on the one
\* ctx; the innermost is the terminal handler
RECURSIVE Execute(_, _, _, _, _)
Execute(stack, ctx, entered, seen, out) ==
    IF stack = <<>> THEN [ctx |-> ctx, trace |-> entered, contexts |-> seen]
    ELSE LET stage == Head(stack)
             wrote == IF Len(stack) = 1 THEN HandlerWrites(stage, out)
                      ELSE MiddlewareWrites(stage, ctx)
             entered2 == Append(entered, stage)
             seen2 == Append(seen, [in |-> ctx, out |-> wrote])
         IN  IF Len(stack) = 1 \/ stage \in Guards
             THEN [ctx |-> wrote, trace |-> entered2, contexts |-> seen2]
             ELSE Execute(Tail(stack), wrote, entered2, seen2, out)

\* the 404 branch of Respond
NoRoute(hdrs, req) ==
    [fault |-> "",
     response |-> [StatusCode |-> StatusNotFound,
                   Body |-> JsonError(NoRouteMessage),
                   Headers |-> hdrs],
     ctx |-> NewContext(req),
     trace |-> <<>>,
     contexts |-> <<>>]

\* the branch of Respond that runs the matched route on a new context
RunRoute(functions, hdrs, routerMiddleware, req, out) ==
    LET run == Execute(ComposedHandler(functions, routerMiddleware),
                       NewContext(req), <<>>, <<>>, out)
    IN  [fault |-> "",
         response |-> [StatusCode |-> run.ctx.Status,
                       Body |-> run.ctx.Body,
                       Headers |-> hdrs],
         ctx |-> run.ctx,
         trace |-> run.trace,
         contexts |-> run.contexts]

\* mutant: the table is asked for the longest registered prefix of the key
Dispatch_longestPrefix(tree, key, hdrs, routerMiddleware, req, out) ==
    LET hits == {k \in DOMAIN tree : HasPrefix(key, k)}
    IN  IF hits = {} THEN NoRoute(hdrs, req)
        ELSE RunRoute(tree[CHOOSE k \in hits : \A k2 \in hits : Len(k2) <= Len(k)],
                      hdrs, routerMiddleware, req, out)

\* mutant: the 404 response is returned without the default headers
Dispatch_bareNotFound(tree, key, hdrs, routerMiddleware, req, out) ==
    IF ~TreeHas(tree, key) THEN NoRoute({}, req)
    ELSE RunRoute(tree[key], hdrs, routerMiddleware, req, out)

\* Respond, from the lookup on: [fault, response, ctx, trace, contexts]
Dispatch(tree, key, hdrs, routerMiddleware, req, out) ==
    IF ~TreeHas(tree, key) THEN NoRoute(hdrs, req)
    ELSE RunRoute(tree[key], hdrs, routerMiddleware, req, out)

----------------------------------------------------------------------------
(* api = "handlers": src/router.go:1-187 *)

\* NewAPIGRouter(r, svcprefix)
NewAPIGRouter_handlers(svcprefix) ==
    [routes     |-> [m \in Methods |-> NewTree],
     params     |-> {},
     prefix     |-> svcprefix,
     headers    |-> {},
     middleware |-> <<>>]

\* the keys addEndpoint records for a route: its segments that start with "{"
EndpointParams(route) ==
    LET rtearr == stripSlashesAndSplit(route)
    IN  {rtearr[i] : i \in {j \in 1..Len(rtearr) : HasPrefix(rtearr[j], <<"{">>)}}

\* addEndpoint
addEndpoint(tree, known, route, handlers) ==
    LET overwrite == TreeHas(tree, route)
    IN  [tree   |-> TreeInsert(tree, route, handlers),
         params |-> IF overwrite THEN known ELSE known \cup EndpointParams(route),
         fault  |-> IF overwrite THEN DuplicateFault ELSE ""]

\* the inner loop of Respond: every segment equal to pval becomes k
ReplaceEach(splitPath, pval, k) ==
    [i \in 1..Len(splitPath) |-> IF splitPath[i] = pval THEN k ELSE splitPath[i]]

\* the outer loop of Respond, visiting r.params in the given order
RECURSIVE Reconcile_handlers(_, _, _)
Reconcile_handlers(splitPath, order, pathParameters) ==
    IF order = <<>> THEN splitPath
    ELSE LET k == Head(order)
             pname == TrimSuffix(TrimPrefix(k, <<"{">>), <<"}">>)
             pval == Lookup(pathParameters, pname)
         IN  Reconcile_handlers(IF pval # <<>>
                                THEN ReplaceEach(splitPath, pval, k)
                                ELSE splitPath,
                                Tail(order), pathParameters)

LookupKey_handlers(svcprefix, req, order) ==
    <<"/">> \o Join(Reconcile_handlers(
                      stripSlashesAndSplit(TrimPrefix(req.path, <<"/">> \o svcprefix)),
                      order, req.pathParameters))

\* the status of a response whose handler set an error
ErrorStatus(status, msg) ==
    IF Contains(msg, RecordNotFound) THEN StatusNoContent
    ELSE IF status < StatusBadRequest THEN StatusBadRequest
    ELSE status

\* the handler loop of Respond: each handler runs on a context of its own, the
\* first error ends the loop; st is [status, respbody, ctx, trace, contexts]
RECURSIVE RunHandlers(_, _, _, _)
RunHandlers(handlers, st, req, out) ==
    IF handlers = <<>>
    THEN [fault |-> "",
          response |-> [StatusCode |-> st.status, Body |-> st.respbody, Headers |-> {}],
          ctx |-> st.ctx,
          trace |-> st.trace,
          contexts |-> st.contexts]
    ELSE IF ClaimsPanic(req.claims)
    THEN [fault |-> ConversionFault, response |-> NoResponse,
          ctx |-> NewContext(req), trace |-> st.trace, contexts |-> st.contexts]
    ELSE LET c == HandlerWrites(Head(handlers), out)
             entered == Append(st.trace, Head(handlers))
             seen == Append(st.contexts, [in |-> NewContext(req), out |-> c])
         IN  IF c.Err # <<>>
             THEN [fault |-> "",
                   response |-> [StatusCode |-> ErrorStatus(c.Status, c.Err[1]),
                                 Body |-> JsonError(c.Err[1]),
                                 Headers |-> {}],
                   ctx |-> c,
                   trace |-> entered,
                   contexts |-> seen]
             ELSE RunHandlers(Tail(handlers),
                              [status |-> c.Status, respbody |-> c.Body,
                               ctx |-> c, trace |-> entered, contexts |-> seen],
                              req, out)

\* Respond, from the lookup on: [fault, response, ctx, trace, contexts]
Dispatch_handlers(tree, key, req, out) ==
    IF ~TreeHas(tree, key)
    THEN [fault |-> "",
          response |-> [StatusCode |-> StatusNotFound,
                        Body |-> JsonError(NoRouteMessage),
                        Headers |-> {}],
          ctx |-> NewContext(req),
          trace |-> <<>>,
          contexts |-> <<>>]
    ELSE RunHandlers(tree[key],
                     [status |-> 0, respbody |-> <<>>, ctx |-> NewContext(req),
                      trace |-> <<>>, contexts |-> <<>>],
                     req, out)

----------------------------------------------------------------------------
(* api = "single": src/unnamed/part_000; NewAPIGRouter and addEndpoint are *)
(* the ones of api = "handlers", a route's chain is its one handler        *)

\* strings.Replace(s, old, new, -1) for a non-empty old: every
\* non-overlapping occurrence of old, from the left
RECURSIVE Replace(_, _, _)
Replace(s, old, new) ==
    IF Len(s) < Len(old) THEN s
    ELSE IF HasPrefix(s, old)
    THEN new \o Replace(SubSeq(s, Len(old) + 1, Len(s)), old, new)
    ELSE <<Head(s)>> \o Replace(Tail(s), old, new)

\* the loop of Respond over r.params, in the given order
RECURSIVE Reconcile_single(_, _, _)
Reconcile_single(path, order, pathParameters) ==
    IF order = <<>> THEN path
    ELSE LET k == Head(order)
             p == TrimSuffix(TrimPrefix(k, <<"{">>), <<"}">>)
         IN  Reconcile_single(IF Lookup(pathParameters, p) # <<>>
                              THEN Replace(path, Lookup(pathParameters, p), k)
                              ELSE path,
                              Tail(order), pathParameters)

\* the key Respond looks up: the path is not split and not joined
LookupKey_single(svcprefix, req, order) ==
    Reconcile_single(TrimPrefix(req.path, <<"/">> \o svcprefix), order,
                     req.pathParameters)

\* &APIGResponse{}
NewResponse == [Status |-> 0, Body |-> <<>>, Err |-> <<>>]

\* Respond, from the lookup on: [fault, response, ctx, trace, contexts]
Dispatch_single(tree, key, req, out) ==
    IF ~TreeHas(tree, key)
    THEN [fault |-> "",
          response |-> [StatusCode |-> StatusNotFound,
                        Body |-> JsonError(NoRouteMessage),
                        Headers |-> {}],
          ctx |-> NewResponse,
          trace |-> <<>>,
          contexts |-> <<>>]
    ELSE IF ClaimsPanic(req.claims)
    THEN [fault |-> ConversionFault, response |-> NoResponse,
          ctx |-> NewResponse, trace |-> <<>>, contexts |-> <<>>]
    ELSE LET res == HandlerWrites(tree[key][1], out)
         IN  [fault |-> "",
              response |-> IF res.Err # <<>>
                           THEN [StatusCode |-> ErrorStatus(res.Status, res.Err[1]),
                                 Body |-> JsonError(res.Err[1]),
                                 Headers |-> {}]
                           ELSE [StatusCode |-> res.Status, Body |-> res.Body,
                                 Headers |-> {}],
              ctx |-> res,
              trace |-> tree[key],
              contexts |-> <<[in |-> NewResponse, out |-> res]>>]

----------------------------------------------------------------------------
(* api = "group": New, Group, Get..Delete and Invoke, after spec.md 4.1-4.5 *)
(* and the calls of src/router_test.go:15-94                               *)

InvalidPathFault == "invalid path"
NotFoundBody == <<"not found">>

\* normalize(rawPath): one leading and one trailing "/" stripped, a leading
\* "/" put in front
Canonical(rawPath) == <<"/">> \o Join(stripSlashesAndSplit(rawPath))

\* New(prefix)
New(pfx) ==
    [routes     |-> [m \in Methods |-> NewTree],
     params     |-> {},
     prefix     |-> Canonical(pfx),
     headers    |-> {},
     middleware |-> <<>>]

\* mutant: the group's prefix replaces the active prefix
GroupPrefix_replace(active, g) == Canonical(g)

\* the prefix in force inside Group(g, fn)
GroupPrefix(active, g) == active \o Canonical(g)

\* the key a registration made under the active prefix gets
RouteKey(active, path) == active \o Canonical(path)

\* Get..Delete of a group router: an empty path and a key already present are
\* faults that leave the table as it was
addGroupRoute(tree, known, active, path, functions) ==
    IF path = <<>>
    THEN [tree |-> tree, params |-> known, fault |-> InvalidPathFault]
    ELSE IF TreeHas(tree, RouteKey(active, path))
    THEN [tree |-> tree, params |-> known, fault |-> DuplicateFault]
    ELSE [tree   |-> TreeInsert(tree, RouteKey(active, path), functions),
          params |-> known \cup RouteParams(path),
          fault  |-> ""]

\* the key Invoke looks up: the request path, reconciled, with nothing stripped
LookupKey_group(req, order) ==
    <<"/">> \o Join(Reconcile(stripSlashesAndSplit(req.path), order, req.pathParameters))

\* Invoke, from the lookup on
Dispatch_group(tree, key, req, out) ==
    IF ~TreeHas(tree, key)
    THEN [fault |-> "",
          response |-> [StatusCode |-> StatusNotFound, Body |-> NotFoundBody,
                        Headers |-> {}],
          ctx |-> NewContext(req),
          trace |-> <<>>,
          contexts |-> <<>>]
    ELSE LET w == HandlerWrites(tree[key].handler[1], out)
         IN  [fault |-> "",
              response |-> [StatusCode |-> w.Status, Body |-> w.Body, Headers |-> {}],
              ctx |-> w,
              trace |-> tree[key].handler,
              contexts |-> <<[in |-> NewContext(req), out |-> w]>>]

----------------------------------------------------------------------------
(* The inputs the model draws from *)

SvcPrefix == <<"pre">>
Prefix == <<"/", "pre">>
CorsHeaders == {<<"Access-Control-Allow-Origin", "*">>,
                <<"Access-Control-Allow-Credentials", "true">>}

Configs ==
    {[Prefix |-> Prefix, Headers |-> {}, Middleware |-> <<>>],
     [Prefix |-> Prefix, Headers |-> CorsHeaders, Middleware |-> <<"mwA", "mwB">>]}

InitialRouters ==
    {[api |-> a] @@ NewAPIGRouter_handlers(SvcPrefix) : a \in {"single", "handlers"}}
    \cup {[api |-> "middleware"] @@ NewAPIGRouter(cfg) : cfg \in Configs}
    \cup {[api |-> "group"] @@ New(SvcPrefix)}

\* route paths, as the registration calls write them
PathA == <<"/", "a">>
PathAP == <<"/", "a", "/", "{", "p", "}">>
PathAPBQ == <<"/", "a", "/", "{", "p", "}", "/", "b", "/", "{", "q", "}">>
PathAPNoLead == <<"a", "/", "{", "p", "}">>
PathAPTrail == <<"/", "a", "/", "{", "p", "}", "/">>
PathDP == <<"d", "/", "{", "p", "}">>
PathEmpty == <<>>

\* the chains the registration calls pass
ChainA(a) ==
    IF a \in {"single", "handlers"} THEN <<"h1">>
    ELSE IF a = "middleware" THEN [handler |-> <<"h1">>, middleware |-> <<"mwC", "mwD">>]
    ELSE [handler |-> <<"h1">>, middleware |-> <<>>]

ChainB(a) ==
    IF a = "single" THEN <<"h2">>
    ELSE IF a = "handlers" THEN <<"hOk", "h2", "hOk">>
    ELSE IF a = "middleware"
    THEN [handler |-> <<"h2">>, middleware |-> <<"mwGuard", "mwMark">>]
    ELSE [handler |-> <<"h2">>, middleware |-> <<>>]

\* the registration calls of a router of the given generation:
\* <<method, path, chain>>
RouteCalls(a) ==
    IF a = "group"
    THEN {<<post, PathDP, ChainA(a)>>, <<post, PathDP, ChainB(a)>>,
          <<put, PathA, ChainA(a)>>, <<post, PathEmpty, ChainA(a)>>}
    ELSE {<<get, PathAP, ChainA(a)>>, <<get, PathAP, ChainB(a)>>,
          <<get, PathAPBQ, ChainA(a)>>, <<get, PathA, ChainB(a)>>,
          <<get, PathAPNoLead, ChainA(a)>>, <<get, PathAPTrail, ChainA(a)>>,
          <<post, PathAP, ChainB(a)>>, <<post, PathEmpty, ChainA(a)>>,
          <<put, PathA, ChainA(a)>>, <<patch, PathA, ChainB(a)>>,
          <<delete, PathAPTrail, ChainA(a)>>}

GroupPrefixes == {<<"/", "g">>, <<"g">>}

Names == {<<"p">>, <<"q">>}

\* pathParameters maps
NoParams == <<>>
PathParameterMaps ==
    {NoParams,
     (<<"p">> :> <<"x">>),
     (<<"p">> :> <<"a">>),
     (<<"p">> :> <<"x">>) @@ (<<"q">> :> <<"y">>),
     (<<"p">> :> <<"a">>) @@ (<<"q">> :> <<"y">>),
     (<<"p">> :> <<"x">>) @@ (<<"q">> :> <<"x">>)}

RequestPaths(a) ==
    IF a = "group"
    THEN {<<"/", "pre", "/", "g", "/", "d", "/", "x">>,
          <<"/", "pre", "/", "d", "/", "x">>,
          <<"/", "pre", "/", "g", "/", "g", "/", "d", "/", "x">>,
          <<"/", "pre", "/", "a">>,
          <<"/", "pre", "/", "a", "/", "x">>,
          <<"a">>}
    ELSE (IF a = "single" THEN {<<"/", "pre", "/", "a", "x", "/", "x">>} ELSE {})
         \cup
         {<<"/", "pre", "/", "a", "/", "x">>,
          <<"/", "pre", "/", "a", "/", "a">>,
          <<"/", "pre", "/", "a", "/", "x", "/", "b", "/", "y">>,
          <<"/", "pre", "/", "a", "/", "a", "/", "b", "/", "y">>,
          <<"/", "pre", "/", "a", "/", "x", "/", "b", "/", "x">>,
          <<"/", "pre", "/", "a">>,
          <<"/", "pre", "/", "a", "/", "x", "/">>,
          <<"/", "pre", "/", "a", "/", "/">>,
          <<"/", "pre">>,
          <<"/", "a", "/", "x">>}

\* requests: every method, path and pathParameters map with Cognito claims, and
\* the GET requests also without claims and with claims that are no map
Requests(a) ==
    {[method |-> m, path |-> p, pathParameters |-> pp, claims |-> "map", body |-> <<>>] :
        m \in Methods, p \in RequestPaths(a), pp \in PathParameterMaps}
    \cup
    {[method |-> get, path |-> p, pathParameters |-> pp, claims |-> c, body |-> <<>>] :
        p \in RequestPaths(a), pp \in {NoParams, (<<"p">> :> <<"x">>)},
        c \in {"nil", "string"}}

\* what a handler may write
Outcomes ==
    {[Status |-> st, Body |-> <<"hello">>, Err |-> e] :
        st \in {0, 200, 400, 500},
        e \in {<<>>, <<RecordNotFound>>, <<<<"db: ">> \o RecordNotFound>>,
               <<<<"bad request">>>>}}

NoOutcome == [Status |-> 0, Body |-> <<>>, Err |-> <<>>]

NoCall ==
    [op |-> "", method |-> "", path |-> <<>>, chain |-> <<>>,
     request |-> <<>>, order |-> <<>>, out |-> NoOutcome, key |-> <<>>]

NumRoutes == Cardinality({<<m, k>> \in Methods \X UNION {DOMAIN routes[m] : m \in Methods} :
                             k \in DOMAIN routes[m]})

----------------------------------------------------------------------------
(* The state machine *)

Init ==
    \E r \in InitialRouters :
        /\ api = r.api
        /\ routes = r.routes
        /\ params = r.params
        /\ prefix = r.prefix
        /\ headers = r.headers
        /\ middleware = r.middleware
        /\ saved = <<>>
        /\ registered = {}
        /\ pc = "ready"
        /\ call = NoCall
        /\ fault = ""
        /\ response = NoResponse
        /\ lastCtx = NoOutcome
        /\ trace = <<>>
        /\ contexts = <<>>

\* the outcome of registering path under method with a chain
Registration(method, path, chain) ==
    IF api \in {"single", "handlers"} THEN addEndpoint(routes[method], params, path, chain)
    ELSE IF api = "middleware" THEN addRoute(routes[method], params, path, chain)
    ELSE addGroupRoute(routes[method], params, prefix, path, chain)

\* the key a registration of path gets
StoredKey(path) == IF api = "group" THEN RouteKey(prefix, path) ELSE path

Register(method) ==
    /\ pc = "ready"
    /\ \E rc \in RouteCalls(api) :
        /\ rc[1] = method
        /\ \/ NumRoutes < MaxRoutes
           \/ TreeHas(routes[method], StoredKey(rc[2]))
           \/ rc[2] = <<>> /\ api = "group"
        /\ LET res == Registration(method, rc[2], rc[3])
           IN  /\ routes' = [routes EXCEPT ![method] = res.tree]
               /\ params' = res.params
               /\ fault' = res.fault
               /\ registered' = IF res.fault = ""
                                THEN registered \cup {<<method, rc[2], Len(saved)>>}
                                ELSE registered
               /\ call' = [NoCall EXCEPT !.op = "register", !.method = method,
                                         !.path = rc[2], !.chain = rc[3]]
    /\ pc' = "done"
    /\ response' = NoResponse
    /\ lastCtx' = NoOutcome
    /\ trace' = <<>>
    /\ contexts' = <<>>
    /\ UNCHANGED <<api, prefix, headers, middleware, saved>>

Get == Register(get)
Post == Register(post)
Put == Register(put)
Patch == Register(patch)
Delete == Register(delete)

\* Group(g, fn) calls fn with the group's prefix in force ...
Group ==
    /\ pc = "ready"
    /\ api = "group"
    /\ Len(saved) < MaxDepth
    /\ \E g \in GroupPrefixes :
        /\ saved' = Append(saved, prefix)
        /\ prefix' = GroupPrefix(prefix, g)
    /\ UNCHANGED <<api, routes, params, headers, middleware, registered,
                   pc, call, fault, response, lastCtx, trace, contexts>>

\* ... and puts the earlier prefix back when fn returns
GroupReturn ==
    /\ pc = "ready"
    /\ api = "group"
    /\ saved # <<>>
    /\ prefix' = saved[Len(saved)]
    /\ saved' = SubSeq(saved, 1, Len(saved) - 1)
    /\ UNCHANGED <<api, routes, params, headers, middleware, registered,
                   pc, call, fault, response, lastCtx, trace, contexts>>

\* the key the dispatch of req looks up, the known parameters visited in order
DispatchKey(req, order) ==
    IF api = "single" THEN LookupKey_single(prefix, req, order)
    ELSE IF api = "handlers" THEN LookupKey_handlers(prefix, req, order)
    ELSE IF api = "middleware" THEN LookupKey(prefix, req, order)
    ELSE LookupKey_group(req, order)

\* the outcome of dispatching req: [fault, response, ctx, trace, contexts]
Dispatched(req, key, out) ==
    IF api = "single" THEN Dispatch_single(routes[req.method], key, req, out)
    ELSE IF api = "handlers" THEN Dispatch_handlers(routes[req.method], key, req, out)
    ELSE IF api = "middleware"
    THEN IF ClaimsPanic(req.claims)
         THEN [fault |-> ConversionFault, response |-> NoResponse,
               ctx |-> NewContext(req), trace |-> <<>>, contexts |-> <<>>]
         ELSE Dispatch(routes[req.method], key, headers, middleware, req, out)
    ELSE Dispatch_group(routes[req.method], key, req, out)

\* the tables after the dispatch of req
RoutesAfterRespond(req, key) ==
    IF api = "middleware" /\ ~ClaimsPanic(req.claims)
    THEN [routes EXCEPT ![req.method] =
              TreeAfterRespond(routes[req.method], key, middleware)]
    ELSE routes

Finish(req, order, key, out) ==
    LET res == Dispatched(req, key, out)
    IN  /\ routes' = RoutesAfterRespond(req, key)
        /\ fault' = res.fault
        /\ response' = res.response
        /\ trace' = res.trace
        /\ contexts' = res.contexts
        /\ lastCtx' = res.ctx
        /\ call' = [NoCall EXCEPT !.op = "respond", !.method = req.method,
                                  !.path = req.path, !.request = req,
                                  !.order = order, !.key = key, !.out = out]

\* Respond (Invoke for a group router): one dispatch of one request
Respond ==
    /\ pc = "ready"
    /\ \E req \in Requests(api), order \in Orders(params) :
        LET key == DispatchKey(req, order)
        IN  IF TreeHas(routes[req.method], key)
            THEN \E out \in Outcomes : Finish(req, order, key, out)
            ELSE Finish(req, order, key, NoOutcome)
    /\ pc' = "done"
    /\ UNCHANGED <<api, params, prefix, headers, middleware, saved, registered>>

\* the caller takes the result of the call
Return ==
    /\ pc = "done"
    /\ pc' = "ready"
    /\ call' = NoCall
    /\ fault' = ""
    /\ response' = NoResponse
    /\ lastCtx' = NoOutcome
    /\ trace' = <<>>
    /\ contexts' = <<>>
    /\ UNCHANGED <<api, routes, params, prefix, headers, middleware, saved, registered>>

Next ==
    \/ Get
    \/ Post
    \/ Put
    \/ Patch
    \/ Delete
    \/ Group
    \/ GroupReturn
    \/ Respond
    \/ Return

Spec == Init /\ [][Next]_vars

----------------------------------------------------------------------------
(* Vocabulary of the properties *)

Range(f) == {f[i] : i \in DOMAIN f}

\* a dispatch has just ended / has just returned a response
Responded == pc = "done" /\ call.op = "respond"
Returned == Responded /\ fault = ""

\* a registration call has just ended
Registering == pc = "done" /\ call.op = "register"

\* the two generations of src/router.go, and all generations whose code is
\* in src/
SourceApi == api \in {"handlers", "middleware"}
AnySourceApi == api \in {"single", "handlers", "middleware"}

\* the prefix a dispatch strips from the request path
StrippedPrefix == IF api \in {"single", "handlers"} THEN <<"/">> \o prefix ELSE prefix

IsNotFound(resp) ==
    resp.StatusCode = StatusNotFound /\ resp.Body = JsonError(NoRouteMessage)

\* a segment {name} and its name
IsParam(seg) == Len(seg) >= 2 /\ seg[1] = "{" /\ seg[Len(seg)] = "}"
ParamName(seg) == SubSeq(seg, 2, Len(seg) - 1)

\* a template: a canonical path (leading "/", no trailing "/") with at least
\* one {name} segment
IsTemplate(t) ==
    /\ t # <<>>
    /\ t[1] = "/"
    /\ t[Len(t)] # "/"
    /\ \E seg \in Range(Split(t)) : IsParam(seg)

TemplateNames(t) == {ParamName(seg) : seg \in {x \in Range(Split(t)) : IsParam(x)}}

\* the template with every {name} replaced by the value pp gives it
Filled(t, pp) ==
    LET segs == Split(t)
    IN  Join([i \in 1..Len(segs) |->
                IF IsParam(segs[i]) THEN Lookup(pp, ParamName(segs[i])) ELSE segs[i]])

\* req asks for template t: its path is the prefix followed by the filled
\* template and its pathParameters hold exactly the template's names
InstanceOf(req, t) ==
    /\ DOMAIN req.pathParameters = TemplateNames(t)
    /\ \A n \in DOMAIN req.pathParameters : req.pathParameters[n] # <<>>
    /\ req.path = StrippedPrefix \o Filled(t, req.pathParameters)

\* every name occurs once in t, and every value differs from the other values
\* and from every segment of t
Unambiguous(t, pp) ==
    /\ \A i, j \in 1..Len(Split(t)) :
          IsParam(Split(t)[i]) /\ Split(t)[i] = Split(t)[j] => i = j
    /\ \A n \in TemplateNames(t) :
          /\ Lookup(pp, n) \notin Range(Split(t))
          /\ \A n2 \in TemplateNames(t) : Lookup(pp, n) = Lookup(pp, n2) => n = n2

\* the stages of a chain, the router-level middleware included
Stages(chain) ==
    IF api \in {"single", "handlers"} THEN Range(chain)
    ELSE Range(chain.handler) \cup Range(chain.middleware) \cup Range(middleware)

\* the dispatch looked up t and entered stages of the chain registered for t only
DispatchedTo(t) ==
    /\ call.key = t
    /\ ~IsNotFound(response)
    /\ trace # <<>>
    /\ Range(trace) \subseteq Stages(routes[call.method][t])

----------------------------------------------------------------------------
(* C1 *)

\* C1 as stated: a request that fills a registered template with any non-empty
\* values, and supplies exactly them as pathParameters, is dispatched to the
\* template's chain whenever Respond returns
C1_AnyValuesDispatch ==
    (Returned /\ SourceApi) =>
        \A t \in DOMAIN routes[call.method] :
            (IsTemplate(t) /\ InstanceOf(call.request, t)) => DispatchedTo(t)

\* C1 (amended): the same, for values that differ from each other and from
\* every segment of the template, each name occurring once in the template
C1_UnambiguousValuesDispatch ==
    (Returned /\ SourceApi) =>
        \A t \in DOMAIN routes[call.method] :
            (/\ IsTemplate(t)
             /\ InstanceOf(call.request, t)
             /\ Unambiguous(t, call.request.pathParameters)) => DispatchedTo(t)

C1_Witness ==
    /\ Returned
    /\ SourceApi
    /\ Cardinality(params) = 2
    /\ call.request.pathParameters = (<<"p">> :> <<"x">>) @@ (<<"q">> :> <<"y">>)
    /\ PathAPBQ \in DOMAIN routes[call.method]
    /\ InstanceOf(call.request, PathAPBQ)
    /\ DispatchedTo(PathAPBQ)

----------------------------------------------------------------------------
(* C2 *)

\* C2: a registration of (method, path) raises the duplicate-route fault when
\* the same (method, path) was registered before on this router, whatever was
\* registered in between, and does not raise it when the path was registered
\* under other methods only
C2_DuplicateRaises ==
    [][(pc = "ready" /\ pc' = "done" /\ call'.op = "register" /\ SourceApi) =>
          /\ (<<call'.method, call'.path, 0>> \in registered)
                => fault' = DuplicateFault
          /\ (<<call'.method, call'.path, 0>> \notin registered)
                => fault' # DuplicateFault]_vars

C2_Witness ==
    /\ Registering
    /\ SourceApi
    /\ fault = DuplicateFault
    /\ <<call.method, call.path, 0>> \in registered
    /\ \E r \in registered : r[1] # call.method /\ r[2] = call.path

----------------------------------------------------------------------------
(* C3 *)

\* C3: when the key a dispatch looks up is no key of the request method's
\* table, the response is 404 with the no-route body and nothing was entered
C3_NoRouteIs404 ==
    (Returned /\ SourceApi /\ call.key \notin DOMAIN routes[call.method]) =>
        /\ IsNotFound(response)
        /\ trace = <<>>

\* the key is registered under another method, and a registered key of the
\* request's method is a proper prefix of it
C3_Witness ==
    /\ Returned
    /\ SourceApi
    /\ call.key \notin DOMAIN routes[call.method]
    /\ \E m \in Methods \ {call.method} : call.key \in DOMAIN routes[m]
    /\ \E k \in DOMAIN routes[call.method] : HasPrefix(call.key, k)
    /\ IsNotFound(response)

----------------------------------------------------------------------------
(* C4, C5 *)

\* C4: a chain that ends with an error whose message contains "record not
\* found" is answered with status 204 and the body {"error": message}
C4_RecordNotFoundIs204 ==
    (/\ Returned
     /\ SourceApi
     /\ lastCtx.Err # <<>>
     /\ Contains(lastCtx.Err[1], RecordNotFound)) =>
        /\ response.StatusCode = StatusNoContent
        /\ response.Body = JsonError(lastCtx.Err[1])

\* C5: a chain that ends with another error is answered with status 400 when
\* the status it set is below 400, with the status it set otherwise, and with
\* the body {"error": message}
C5_ErrorStatus ==
    (/\ Returned
     /\ SourceApi
     /\ lastCtx.Err # <<>>
     /\ ~Contains(lastCtx.Err[1], RecordNotFound)) =>
        /\ response.StatusCode =
              (IF lastCtx.Status < StatusBadRequest
               THEN StatusBadRequest ELSE lastCtx.Status)
        /\ response.Body = JsonError(lastCtx.Err[1])

----------------------------------------------------------------------------
(* C6 *)

\* C6: in a dispatch of the middleware generation every router-level
\* middleware is entered before any route-level middleware, and the terminal
\* handler is entered last, after all middleware of both levels
C6_RouterMiddlewareFirst ==
    (Returned /\ api = "middleware" /\ trace # <<>>) =>
        LET functions == routes[call.method][call.key]
        IN  /\ \A i, j \in DOMAIN trace :
                  (trace[i] \in Range(middleware)
                   /\ trace[j] \in Range(functions.middleware)) => i < j
            /\ \A i \in DOMAIN trace :
                  trace[i] = functions.handler[1] =>
                      /\ i = Len(trace)
                      /\ Range(middleware) \cup Range(functions.middleware)
                            \subseteq {trace[k] : k \in 1..(i - 1)}

C6_Witness ==
    /\ Returned
    /\ api = "middleware"
    /\ Len(middleware) = 2
    /\ Len(trace) = 5
    /\ trace[5] = "h1"

----------------------------------------------------------------------------
(* C7 *)

\* C7: a dispatch of a request with one of the five methods and a path that
\* starts with "/" raises no fault
C7_RespondNeverFaults ==
    (Responded /\ SourceApi /\ call.request.path[1] = "/") => fault = ""

----------------------------------------------------------------------------
(* C8 *)

\* C8: every response of the middleware generation carries the router's
\* default headers
C8_DefaultHeaders ==
    (Returned /\ api = "middleware") => response.Headers = headers

C8_Witness ==
    /\ Returned
    /\ api = "middleware"
    /\ headers = CorsHeaders
    /\ lastCtx.Err # <<>>
    /\ response.Headers = CorsHeaders

----------------------------------------------------------------------------
(* C9 *)

\* the prefixes of d nested groups "g"
RECURSIVE GroupPath(_)
GroupPath(d) == IF d = 0 THEN <<>> ELSE GroupPath(d - 1) \o <<"/", "g">>

\* C9: inside d nested groups the active prefix is the router prefix followed
\* by the d group prefixes, so it is the earlier one again when a group
\* returns; a route registered there with Post("d/{p}") is dispatched to by
\* the POST request for <router prefix><group prefixes>/d/x with p = x
C9_GroupPrefix ==
    api = "group" =>
        /\ prefix = <<"/", "pre">> \o GroupPath(Len(saved))
        /\ \A d \in 0..Len(saved) + MaxDepth :
              (/\ Returned
               /\ call.method = post
               /\ call.request.path =
                     <<"/", "pre">> \o GroupPath(d) \o <<"/", "d", "/", "x">>
               /\ call.request.pathParameters = (<<"p">> :> <<"x">>)
               /\ <<post, PathDP, d>> \in registered) =>
                  /\ call.key = <<"/", "pre">> \o GroupPath(d)
                                   \o <<"/", "d", "/", "{", "p", "}">>
                  /\ trace \in {<<"h1">>, <<"h2">>}

\* the test's case: registered in one group, dispatched after the group returned
C9_Witness ==
    /\ api = "group"
    /\ Returned
    /\ saved = <<>>
    /\ prefix = <<"/", "pre">>
    /\ call.method = post
    /\ call.request.path = <<"/", "pre", "/", "g", "/", "d", "/", "x">>
    /\ call.request.pathParameters = (<<"p">> :> <<"x">>)
    /\ <<post, PathDP, 1>> \in registered
    /\ trace = <<"h1">>

----------------------------------------------------------------------------
(* C10 *)

\* C10: a registration with the empty path raises a fault and leaves every
\* method's table without a route for it
C10_EmptyPathFaults ==
    (Registering /\ call.path = <<>>) =>
        /\ fault # ""
        /\ \A m \in Methods : <<>> \notin DOMAIN routes[m]

----------------------------------------------------------------------------
(* C11 *)

----------------------------------------------------------------------------
(* C12 *)

\* stage i of the dispatch set an error
SetError(i) ==
    /\ contexts[i].out.Err # <<>>
    /\ contexts[i].out.Err # contexts[i].in.Err

\* C12: a stage that set an error is the last stage the dispatch entered,
\* and the response body is built from that error
C12_ErrorStopsChain ==
    (Returned /\ SourceApi) =>
        \A i \in DOMAIN contexts :
            SetError(i) =>
                /\ i = Len(contexts)
                /\ response.Body = JsonError(contexts[i].out.Err[1])

----------------------------------------------------------------------------
(* C13 *)

\* the segments of the request path of the dispatch, the prefix stripped, and
\* the segments of the key it looked up
RequestSegments == stripSlashesAndSplit(TrimPrefix(call.request.path, StrippedPrefix))
KeySegments ==
    IF api = "single" THEN stripSlashesAndSplit(call.key) ELSE Split(Tail(call.key))

\* the names of the known parameters
KnownNames == {TrimSuffix(TrimPrefix(k, <<"{">>), <<"}">>) : k \in params}

\* C13: reconciliation changes a segment only into {name} of a known parameter
\* whose non-empty value is the whole segment; no two segments are changed
\* into the same {name}; and a changed segment is the leftmost one with its
\* value that was left to change
C13_LeftmostWholeSegment ==
    (Responded /\ AnySourceApi) =>
        LET segs == RequestSegments
            ksegs == KeySegments
            pp == call.request.pathParameters
        IN  /\ Len(ksegs) = Len(segs)
            /\ \A i \in DOMAIN segs :
                  ksegs[i] # segs[i] =>
                      /\ IsParam(ksegs[i])
                      /\ ParamName(ksegs[i]) \in KnownNames
                      /\ segs[i] # <<>>
                      /\ Lookup(pp, ParamName(ksegs[i])) = segs[i]
            /\ \A i, j \in DOMAIN segs :
                  (ksegs[i] # segs[i] /\ ksegs[j] # segs[j] /\ ksegs[i] = ksegs[j])
                      => i = j
            /\ \A i, j \in DOMAIN segs :
                  (j < i /\ ksegs[i] # segs[i] /\ segs[j] = segs[i])
                      => ksegs[j] # segs[j]

----------------------------------------------------------------------------
(* C14 *)

\* the middleware lists of the two levels of the dispatch
Levels == {middleware, routes[call.method][call.key].middleware}

\* C14 as stated: of two middleware of one level that a dispatch entered, the
\* one listed first was entered first
C14_ListedOrder ==
    (Returned /\ api = "middleware" /\ trace # <<>>) =>
        \A L \in Levels : \A a, b \in DOMAIN L : \A i, j \in DOMAIN trace :
            (a < b /\ trace[i] = L[a] /\ trace[j] = L[b]) => i < j

\* C14 (amended): of two middleware of one level that a dispatch entered, the
\* one listed last was entered first
C14_ReverseListedOrder ==
    (Returned /\ api = "middleware" /\ trace # <<>>) =>
        \A L \in Levels : \A a, b \in DOMAIN L : \A i, j \in DOMAIN trace :
            (a < b /\ trace[i] = L[a] /\ trace[j] = L[b]) => j < i

C14_Witness ==
    /\ Returned
    /\ api = "middleware"
    /\ trace = <<"mwB", "mwA", "mwD", "mwC", "h1">>
    /\ middleware = <<"mwA", "mwB">>
    /\ routes[call.method][call.key].middleware = <<"mwC", "mwD">>

----------------------------------------------------------------------------
(* C15 *)

\* C15: a registration that raises the duplicate-route fault leaves the route
\* tables, the chains in them and the known-parameter set as they were
C15_FailedRegistrationKeepsTable ==
    [][(pc = "ready" /\ pc' = "done" /\ call'.op = "register"
        /\ fault' = DuplicateFault) =>
          /\ routes' = routes
          /\ params' = params]_vars

----------------------------------------------------------------------------
(* C16 *)

----------------------------------------------------------------------------
(* C17 *)

\* C17: the first stage of a dispatch receives the context made for the
\* dispatch, every later stage receives the context as the stage before it
\* left it, and the response is made from the context the last stage left
C17_OneContext ==
    (Returned /\ SourceApi /\ contexts # <<>>) =>
        /\ contexts[1].in = NewContext(call.request)
        /\ \A i \in 2..Len(contexts) : contexts[i].in = contexts[i - 1].out
        /\ lastCtx = contexts[Len(contexts)].out

----------------------------------------------------------------------------
(* C18 *)

\* C18: the key a dispatch looks up begins with "/" and, unless it is "/"
\* itself, does not end with "/"
C18_CanonicalLookupKey ==
    (Responded /\ SourceApi) =>
        /\ call.key # <<>>
        /\ call.key[1] = "/"
        /\ Len(call.key) > 1 => call.key[Len(call.key)] # "/"

====
